---- MODULE Spec2Model ----
(***************************************************************************)
(* Model of pyalgotrade/bitstamp/livebroker.py: the TradeMonitor polling   *)
(* thread, its hand-off queue and the LiveBroker that reconciles account   *)
(* state against the trades the monitor publishes.                         *)
(*                                                                         *)
(* Units.  USD amounts are integers counting 1/1000 USD, BTC amounts are   *)
(* integers counting 1e-9 BTC, so that round(x, 2) and roundQuantity (8    *)
(* decimals) are real roundings and not the identity.                      *)
(***************************************************************************)
EXTENDS Integers, Sequences, FiniteSets, TLC

\* ------------------------------------------------------------------ bounds
\* Largest number of trades the exchange executes in one run.
MaxTrades == 2

\* ------------------------------------------------------- program constants
\* TradeMonitor.__lastTradeId before any trade was seen.
NoTradeId == -1
\* TradeMonitor.ON_USER_TRADE
ON_USER_TRADE == 1
\* Decimals kept by round(cash, 2), as a number of 1/1000 USD.
CashQuantum == 10
\* Decimals kept by BTCTraits.roundQuantity (8), as a number of 1e-9 BTC.
QtyQuantum == 10

BTC_SYMBOL == "BTC"

\* ------------------------------------------------------------- arithmetic
Abs(x) == IF x < 0 THEN -x ELSE x

\* Python 2 round(): to the nearest multiple of q, halves away from zero.
RoundTo(x, q) ==
    IF x >= 0 THEN ((x + q \div 2) \div q) * q
              ELSE -((((-x) + q \div 2) \div q) * q)

\* round(x, 2) on a USD amount.
Round2(x) == RoundTo(x, CashQuantum)

\* common.BTCTraits().roundQuantity
roundQuantity(x) == RoundTo(x, QtyQuantum)

Last(s) == s[Len(s)]

Max(a, b) == IF a >= b THEN a ELSE b

Reverse(s) == [i \in 1..Len(s) |-> s[Len(s) + 1 - i]]

\* ---------------------------------------------------------------- exchange
\* The exchange is the environment: an order book, an account balance and a
\* trade history that getUserTransactions returns newest first.  It never
\* fills an order beyond its open amount and refuses to cancel an order
\* that is not open.
ExOrderBook ==
    1 :> [side |-> "buy", price |-> 100000, amount |-> 1000000000] @@
    2 :> [side |-> "sell", price |-> 100000, amount |-> 400000000]

\* What one execution of an order can be: the base amount and the fee charged.
FillKinds(side) ==
    IF side = "buy"
    THEN { [btc |-> 400000000, fee |-> 100], [btc |-> 600000000, fee |-> 150] }
    ELSE { [btc |-> 200000000, fee |-> 54] }

ExOrderIds == DOMAIN ExOrderBook

\* An order of the same account that this broker never tracked.
ForeignOrder == [id |-> 77, side |-> "buy", price |-> 100000]

ForeignFillKinds == { [btc |-> 200000000, fee |-> 50] }

InitialBalance == [usd |-> 1000000, btc |-> 0]

\* Quote amount of a fill of b (1e-9 BTC) at price p (1/1000 USD per BTC).
QuoteOf(b, p) == (b \div 10000) * (p \div 100000)

\* The user transaction the exchange reports for a fill.
MakeTrade(tid, oid, side, price, kind) ==
    [ id       |-> tid,
      orderId  |-> oid,
      btc      |-> IF side = "buy" THEN kind.btc ELSE -kind.btc,
      usd      |-> IF side = "buy" THEN -QuoteOf(kind.btc, price)
                                   ELSE QuoteOf(kind.btc, price),
      fee      |-> kind.fee,
      btcusd   |-> price,
      dateTime |-> tid ]

\* Largest id of a fetched history, NoTradeId for an empty one.
RECURSIVE MaxId(_)
MaxId(userTrades) ==
    IF userTrades = <<>> THEN NoTradeId
    ELSE Max(Head(userTrades).id, MaxId(Tail(userTrades)))

\* ------------------------------------------------------------------- state
VARIABLES
    \* exchange
    exHistory,      \* trade history, newest first
    exRemaining,    \* order id -> amount still open
    exCanceled,     \* ids of the orders canceled at the exchange
    exUsd, exBtc,   \* the account balance at the exchange
    \* TradeMonitor
    lastTradeId,    \* __lastTradeId
    queue,          \* __queue, a FIFO of (eventType, eventData)
    tmStop,         \* __stop
    pollerPc,       \* position of the polling thread in run()
    \* LiveBroker
    stop,           \* __stop, what eof() returns
    cash,           \* __cash
    shares,         \* __shares
    activeOrders,   \* keys of __activeOrders
    orders,         \* the Order objects built so far, by id
    events,         \* what notifyOrderEvent was called with, in order
    hostPc,         \* position of the host thread
    hostErr,        \* the last host call, if its exception reached the host
    \* history
    applied,        \* ids of the trades applied to account state, in order
    published,      \* every batch put on the queue, with the watermark its fetch saw
    maxSeen,        \* largest trade id in any history fetched so far, or NoTradeId
    cashAtRefresh,  \* __cash as refreshAccountBalance last set it
    taken           \* the events dispatch() took off the queue, in order

exVars == <<exHistory, exRemaining, exCanceled, exUsd, exBtc>>
tmVars == <<lastTradeId, queue, tmStop, pollerPc, published, maxSeen>>
accVars == <<cash, shares, activeOrders, orders, events, applied>>
brVars == <<stop, cash, shares, activeOrders, orders, events, hostPc, hostErr, applied,
           cashAtRefresh, taken>>
vars == <<exHistory, exRemaining, exCanceled, exUsd, exBtc,
          lastTradeId, queue, tmStop, pollerPc,
          stop, cash, shares, activeOrders, orders, events, hostPc, hostErr,
          applied, published, maxSeen, cashAtRefresh, taken>>

EmptyMap == [x \in {} |-> 0]

\* The last host call returned.
NoError == [call |-> "none", order |-> 0]

\* The last host call raised; order is the argument of cancelOrder, else 0.
Raised(call, oid) == [call |-> call, order |-> oid]

\* ------------------------------------------------------------ broker.Order
\* Order.isActive
isActive(order) == order.state \notin {"CANCELED", "FILLED"}

\* Order.isFilled
isFilled(order) == order.state = "FILLED"

\* Order.getRemaining
getRemaining(order) == roundQuantity(order.quantity - order.filled)

\* Order.addExecutionInfo
addExecutionInfo(order, info) ==
    LET filled == roundQuantity(order.filled + info.quantity)
    IN  [order EXCEPT
            !.filled = filled,
            !.execs = Append(@, info),
            !.state = IF roundQuantity(order.quantity - filled) = 0
                      THEN "FILLED" ELSE "PARTIALLY_FILLED"]

\* build_order_from_open_order
build_order_from_open_order(openOrder) ==
    [ id         |-> openOrder.id,
      action     |-> IF openOrder.side = "buy" THEN "BUY" ELSE "SELL",
      limitPrice |-> openOrder.price,
      quantity   |-> openOrder.amount,
      filled     |-> 0,
      execs      |-> <<>>,
      state      |-> "ACCEPTED" ]

\* ------------------------------------------------------------ TradeMonitor
\* The scan with the comparison off by one: the watermark trade counts as new.
RECURSIVE TakeNewInclusive(_, _)
TakeNewInclusive(userTrades, wm) ==
    IF userTrades = <<>> THEN <<>>
    ELSE IF Head(userTrades).id >= wm
         THEN <<Head(userTrades)>> \o TakeNewInclusive(Tail(userTrades), wm)
         ELSE <<>>

\* The scan of _getNewTrades: the leading trades whose id exceeds the
\* watermark, up to the first one that does not.
RECURSIVE TakeNew(_, _)
TakeNew(userTrades, wm) ==
    IF userTrades = <<>> THEN <<>>
    ELSE IF Head(userTrades).id > wm
         THEN <<Head(userTrades)>> \o TakeNew(Tail(userTrades), wm)
         ELSE <<>>

\* _getNewTrades without ret.reverse(): newest trades first.
getNewTradesNewestFirst(userTrades, wm) == TakeNew(userTrades, wm)

\* TradeMonitor._getNewTrades on a fetched history: older trades first.
getNewTrades(userTrades, wm) == Reverse(TakeNew(userTrades, wm))

\* The watermark taken from trades[0], the oldest trade of the batch.
NewLastTradeIdOldest(trades) == trades[1].id

\* The watermark run() and start() store for a non-empty batch.
NewLastTradeId(trades) == Last(trades).id

\* A loop that does not read the stop flag.
KeepRunningAlways(stopFlag) == TRUE

\* The loop condition of run().
KeepRunning(stopFlag) == ~stopFlag

\* The exception leaving run(): the thread ends.
AfterFetchErrorUncaught == "done"

\* Where run() goes when the fetch raised: the handler logs, then sleeps.
AfterFetchError == "sleep"

\* Thread.isAlive
isAlive == pollerPc \notin {"notstarted", "done"}

\* -------------------------------------------------------------- LiveBroker
\* The account state the broker methods read and write, as one value.
Account ==
    [ cash |-> cash, shares |-> shares, activeOrders |-> activeOrders,
      orders |-> orders, events |-> events, applied |-> applied ]

\* LiveBroker.eof
eof == stop

\* LiveBroker.getShares
getShares(sh, instrument) ==
    IF instrument \in DOMAIN sh THEN sh[instrument] ELSE 0

\* The cash update leaving the fee out.
cashAfterTradeFeeIgnored(c, trade) == Round2(c + trade.usd)

\* self.__cash = round(self.__cash + usdAmount - fee, 2)
cashAfterTrade(c, trade) == Round2(c + trade.usd - trade.fee)

\* self.__shares[btc] = roundQuantity(self.__shares.get(btc, 0) + btcAmount)
sharesAfterTrade(q, trade) == roundQuantity(q + trade.btc)

\* The branch with the event type read before the execution is added to
\* the order.
applyTradeStaleEvent(acc, trade) ==
    LET order == acc.orders[trade.orderId]
        newCash == cashAfterTrade(acc.cash, trade)
        newQty == sharesAfterTrade(getShares(acc.shares, BTC_SYMBOL), trade)
        newShares == IF newQty = 0 THEN EmptyMap ELSE BTC_SYMBOL :> newQty
        newActive == IF ~isActive(order)
                     THEN acc.activeOrders \ {order.id}
                     ELSE acc.activeOrders
        info == [ price |-> trade.btcusd, quantity |-> Abs(trade.btc),
                  commission |-> trade.fee, dateTime |-> trade.dateTime ]
        eventType == IF isFilled(order) THEN "FILLED" ELSE "PARTIALLY_FILLED"
        newOrder == addExecutionInfo(order, info)
    IN  [ cash |-> newCash,
          shares |-> newShares,
          activeOrders |-> newActive,
          orders |-> [acc.orders EXCEPT ![order.id] = newOrder],
          events |-> Append(acc.events,
                       [order |-> order.id, type |-> eventType, info |-> info]),
          applied |-> Append(acc.applied, trade.id) ]

\* The branch of _onUserTrades for a trade whose order is in __activeOrders.
applyTrade(acc, trade) ==
    LET order == acc.orders[trade.orderId]
        \* Update cash, shares and active orders.
        newCash == cashAfterTrade(acc.cash, trade)
        newQty == sharesAfterTrade(getShares(acc.shares, BTC_SYMBOL), trade)
        newShares == IF newQty = 0 THEN EmptyMap ELSE BTC_SYMBOL :> newQty
        \* isActive is read before the execution is added to the order.
        newActive == IF ~isActive(order)
                     THEN acc.activeOrders \ {order.id}
                     ELSE acc.activeOrders
        \* Notify that the order was updated.
        info == [ price |-> trade.btcusd, quantity |-> Abs(trade.btc),
                  commission |-> trade.fee, dateTime |-> trade.dateTime ]
        newOrder == addExecutionInfo(order, info)
        eventType == IF isFilled(newOrder) THEN "FILLED" ELSE "PARTIALLY_FILLED"
    IN  [ cash |-> newCash,
          shares |-> newShares,
          activeOrders |-> newActive,
          orders |-> [acc.orders EXCEPT ![order.id] = newOrder],
          events |-> Append(acc.events,
                       [order |-> order.id, type |-> eventType, info |-> info]),
          applied |-> Append(acc.applied, trade.id) ]

\* The loop body charging cash before it looks the order up.
onUserTradeCharged(acc, trade) ==
    IF trade.orderId \in acc.activeOrders THEN applyTrade(acc, trade)
    ELSE [acc EXCEPT !.cash = cashAfterTrade(acc.cash, trade)]

\* The body of the loop of _onUserTrades, for one trade: the order is looked
\* up in __activeOrders and a trade without one is only logged.
onUserTrade(acc, trade) ==
    IF trade.orderId \in acc.activeOrders THEN applyTrade(acc, trade) ELSE acc

\* The loop of _onUserTrades running over the batch from its newest trade.
RECURSIVE onUserTradesNewestFirst(_, _)
onUserTradesNewestFirst(acc, trades) ==
    IF trades = <<>> THEN acc
    ELSE onUserTradesNewestFirst(onUserTrade(acc, Last(trades)),
                                 SubSeq(trades, 1, Len(trades) - 1))

\* LiveBroker._onUserTrades
RECURSIVE onUserTrades(_, _)
onUserTrades(acc, trades) ==
    IF trades = <<>> THEN acc
    ELSE onUserTrades(onUserTrade(acc, Head(trades)), Tail(trades))

\* dispatch() without the test of the event type: every event goes to
\* _onUserTrades.
dispatchAnyKind(q, acc) ==
    IF q = <<>> THEN [queue |-> q, acc |-> acc]
    ELSE [queue |-> Tail(q), acc |-> onUserTrades(acc, Head(q).data)]

\* dispatch() reading the head of the queue without taking it off.
dispatchPeek(q, acc) ==
    IF q = <<>> THEN [queue |-> q, acc |-> acc]
    ELSE [ queue |-> q,
           acc |-> IF Head(q).type = ON_USER_TRADE
                   THEN onUserTrades(acc, Head(q).data)
                   ELSE acc ]

\* LiveBroker.dispatch on a queue and an account: the queue left and the
\* account after it.
dispatch(q, acc) ==
    IF q = <<>> THEN [queue |-> q, acc |-> acc]
    ELSE [ queue |-> Tail(q),
           acc |-> IF Head(q).type = ON_USER_TRADE
                   THEN onUserTrades(acc, Head(q).data)
                   ELSE acc ]

\* cancelOrder removing the order before it calls the exchange.
cancelOrderEager(acc, oid, exchangeOk) ==
    IF oid \notin acc.activeOrders THEN [acc |-> acc, raised |-> TRUE]
    ELSE IF ~exchangeOk
         THEN [acc |-> [acc EXCEPT !.activeOrders = @ \ {oid}], raised |-> TRUE]
         ELSE [ acc |-> [acc EXCEPT
                           !.activeOrders = @ \ {oid},
                           !.orders[oid].state = "CANCELED",
                           !.events = Append(@, [order |-> oid, type |-> "CANCELED",
                                                 info |-> [reason |-> "User requested cancellation"]])],
                raised |-> FALSE ]

\* cancelOrder without the del of line 270: the order stays in the map.
cancelOrderKeepsActive(acc, oid, exchangeOk) ==
    IF ~exchangeOk THEN [acc |-> acc, raised |-> TRUE]
    ELSE IF oid \notin acc.activeOrders THEN [acc |-> acc, raised |-> TRUE]
    ELSE [ acc |-> [acc EXCEPT
                      !.orders[oid].state = "CANCELED",
                      !.events = Append(@, [order |-> oid, type |-> "CANCELED",
                                            info |-> [reason |-> "User requested cancellation"]])],
           raised |-> FALSE ]

\* LiveBroker.cancelOrder: the account after it and whether it raised.
cancelOrder(acc, oid, exchangeOk) ==
    IF ~exchangeOk THEN [acc |-> acc, raised |-> TRUE]
    ELSE IF oid \notin acc.activeOrders THEN [acc |-> acc, raised |-> TRUE]
    ELSE [ acc |-> [acc EXCEPT
                      !.activeOrders = @ \ {oid},
                      !.orders[oid].state = "CANCELED",
                      !.events = Append(@, [order |-> oid, type |-> "CANCELED",
                                            info |-> [reason |-> "User requested cancellation"]])],
           raised |-> FALSE ]

\* __stop never set before the risky call.
StopAfterUnguarded(ok) == FALSE

\* __stop set before the risky call and never cleared.
StopAfterNeverCleared(ok) == TRUE

\* The value of __stop a refresh or _startTradeMonitor leaves: set before
\* the risky call, cleared only when nothing raised.
StopAfter(ok) == ~ok

\* Where start() is after a step: it goes on only when the step did not raise.
StartNext(ok, next) == IF ok THEN next ELSE "failed"

\* What dispatch() got from the queue: the event type and the ids of the
\* trades it carries.
Taken(event) ==
    [ type |-> event.type,
      ids |-> [i \in 1..Len(event.data) |-> event.data[i].id] ]

SetAccount(acc) ==
    /\ cash' = acc.cash
    /\ shares' = acc.shares
    /\ activeOrders' = acc.activeOrders
    /\ orders' = acc.orders
    /\ events' = acc.events
    /\ applied' = acc.applied

\* ------------------------------------------------------------------- Init
Init ==
    /\ exHistory = <<>>
    /\ exRemaining = [o \in ExOrderIds |-> ExOrderBook[o].amount]
    /\ exCanceled = {}
    /\ exUsd = InitialBalance.usd
    /\ exBtc = InitialBalance.btc
    /\ lastTradeId = NoTradeId
    /\ queue = <<>>
    /\ tmStop = FALSE
    /\ pollerPc = "notstarted"
    /\ stop = FALSE
    /\ cash = 0
    /\ shares = EmptyMap
    /\ activeOrders = {}
    /\ orders = EmptyMap
    /\ events = <<>>
    /\ hostPc = "created"
    /\ hostErr = NoError
    /\ applied = <<>>
    /\ published = <<>>
    /\ maxSeen = NoTradeId
    /\ cashAtRefresh = 0
    /\ taken = <<>>

\* --------------------------------------------------------------- exchange
ExOpen(o) == o \in ExOrderIds /\ exRemaining[o] > 0 /\ o \notin exCanceled

RecordTrade(trade) ==
    /\ exHistory' = <<trade>> \o exHistory
    /\ exUsd' = exUsd + trade.usd - trade.fee
    /\ exBtc' = exBtc + trade.btc

\* The exchange executes part of an open order of the book.
ExchangeFill(o, kind) ==
    /\ Len(exHistory) < MaxTrades
    /\ ExOpen(o)
    /\ kind \in FillKinds(ExOrderBook[o].side)
    /\ kind.btc <= exRemaining[o]
    /\ ExOrderBook[o].side = "sell" => exBtc >= kind.btc
    /\ RecordTrade(MakeTrade(Len(exHistory) + 1, o, ExOrderBook[o].side,
                             ExOrderBook[o].price, kind))
    /\ exRemaining' = [exRemaining EXCEPT ![o] = @ - kind.btc]
    /\ UNCHANGED <<exCanceled, tmVars, brVars>>

\* The exchange executes an order this broker does not track.
ExchangeForeignFill(kind) ==
    /\ Len(exHistory) < MaxTrades
    /\ RecordTrade(MakeTrade(Len(exHistory) + 1, ForeignOrder.id, ForeignOrder.side,
                             ForeignOrder.price, kind))
    /\ UNCHANGED <<exRemaining, exCanceled, tmVars, brVars>>

\* ------------------------------------------------------- LiveBroker.start
HostIdle == hostPc \in {"running", "failed"}

\* refreshAccountBalance, the first step of start().
RefreshAccountBalance(ok) ==
    /\ hostPc = "created"
    /\ stop' = StopAfter(ok)
    /\ IF ok
       THEN /\ cash' = Round2(exUsd)
            /\ shares' = BTC_SYMBOL :> exBtc
            /\ cashAtRefresh' = Round2(exUsd)
       ELSE UNCHANGED <<cash, shares, cashAtRefresh>>
    /\ hostPc' = StartNext(ok, "balanceDone")
    /\ hostErr' = IF ok THEN NoError ELSE Raised("start", 0)
    /\ UNCHANGED <<activeOrders, orders, events, applied, taken, exVars, tmVars>>

\* refreshOpenOrders, the second step of start().
RefreshOpenOrders(ok) ==
    /\ hostPc = "balanceDone"
    /\ stop' = StopAfter(ok)
    /\ IF ok
       THEN LET open == { o \in ExOrderIds : ExOpen(o) }
            IN  /\ orders' = [o \in DOMAIN orders \cup open |->
                                IF o \in open
                                THEN build_order_from_open_order(
                                       [ id |-> o, side |-> ExOrderBook[o].side,
                                         price |-> ExOrderBook[o].price,
                                         amount |-> exRemaining[o] ])
                                ELSE orders[o]]
                /\ activeOrders' = activeOrders \cup open
       ELSE UNCHANGED <<orders, activeOrders>>
    /\ hostPc' = StartNext(ok, "ordersDone")
    /\ hostErr' = IF ok THEN NoError ELSE Raised("start", 0)
    /\ UNCHANGED <<cash, shares, events, applied, cashAtRefresh, taken, exVars, tmVars>>

\* _startTradeMonitor starting the thread without the fetch of
\* TradeMonitor.start: the watermark stays as __init__ set it.
StartTradeMonitorNoFetch(ok) ==
    /\ hostPc = "ordersDone"
    /\ stop' = StopAfter(ok)
    /\ IF ok
       THEN /\ lastTradeId' = lastTradeId
            /\ pollerPc' = "check"
            /\ maxSeen' = maxSeen
       ELSE UNCHANGED <<lastTradeId, pollerPc, maxSeen>>
    /\ hostPc' = StartNext(ok, "running")
    /\ hostErr' = IF ok THEN NoError ELSE Raised("start", 0)
    /\ UNCHANGED <<accVars, cashAtRefresh, taken, exVars, queue, tmStop, published>>

\* _startTradeMonitor, the last step of start(): TradeMonitor.start fetches
\* once on the host thread, stores the watermark and starts the thread.
StartTradeMonitor(ok) ==
    /\ hostPc = "ordersDone"
    /\ stop' = StopAfter(ok)
    /\ IF ok
       THEN LET trades == getNewTrades(exHistory, lastTradeId)
            IN  /\ lastTradeId' = IF Len(trades) > 0 THEN NewLastTradeId(trades)
                                                     ELSE lastTradeId
                /\ pollerPc' = "check"
                /\ maxSeen' = Max(maxSeen, MaxId(exHistory))
       ELSE UNCHANGED <<lastTradeId, pollerPc, maxSeen>>
    /\ hostPc' = StartNext(ok, "running")
    /\ hostErr' = IF ok THEN NoError ELSE Raised("start", 0)
    /\ UNCHANGED <<accVars, cashAtRefresh, taken, exVars, queue, tmStop, published>>

\* ------------------------------------------------------- TradeMonitor.run
\* while not self.__stop
PollCheck ==
    /\ pollerPc = "check"
    /\ pollerPc' = IF KeepRunning(tmStop) THEN "fetch" ELSE "done"
    /\ UNCHANGED <<lastTradeId, queue, tmStop, published, maxSeen, exVars, brVars>>

\* The try block handing the new trades to _onUserTrades on the polling
\* thread instead of putting them on the queue.
PollFetchApplying ==
    /\ pollerPc = "fetch"
    /\ LET trades == getNewTrades(exHistory, lastTradeId)
       IN  IF Len(trades) > 0
           THEN /\ lastTradeId' = NewLastTradeId(trades)
                /\ SetAccount(onUserTrades(Account, trades))
                /\ published' = Append(published,
                                  [ wm |-> lastTradeId,
                                    ids |-> [i \in 1..Len(trades) |-> trades[i].id] ])
           ELSE UNCHANGED <<lastTradeId, published, accVars>>
    /\ maxSeen' = Max(maxSeen, MaxId(exHistory))
    /\ pollerPc' = "sleep"
    /\ UNCHANGED <<queue, tmStop, exVars, stop, hostPc, hostErr, cashAtRefresh, taken>>

\* The body of the try block when the fetch returns: the new trades are
\* taken from the history and, if there are any, the watermark is stored and
\* the batch is put on the queue.
PollFetch ==
    /\ pollerPc = "fetch"
    /\ LET trades == getNewTrades(exHistory, lastTradeId)
       IN  IF Len(trades) > 0
           THEN /\ lastTradeId' = NewLastTradeId(trades)
                /\ queue' = Append(queue, [type |-> ON_USER_TRADE, data |-> trades])
                /\ published' = Append(published,
                                  [ wm |-> lastTradeId,
                                    ids |-> [i \in 1..Len(trades) |-> trades[i].id] ])
           ELSE UNCHANGED <<lastTradeId, queue, published>>
    /\ maxSeen' = Max(maxSeen, MaxId(exHistory))
    /\ pollerPc' = "sleep"
    /\ UNCHANGED <<tmStop, exVars, brVars>>

\* The fetch raising: control goes to the except clause.
PollFetchFail ==
    /\ pollerPc = "fetch"
    /\ pollerPc' = "except"
    /\ UNCHANGED <<lastTradeId, queue, tmStop, published, maxSeen, exVars, brVars>>

\* except Exception: log.
PollExcept ==
    /\ pollerPc = "except"
    /\ pollerPc' = AfterFetchError
    /\ UNCHANGED <<lastTradeId, queue, tmStop, published, maxSeen, exVars, brVars>>

\* time.sleep(POLL_FREQUENCY)
PollSleep ==
    /\ pollerPc = "sleep"
    /\ pollerPc' = "check"
    /\ UNCHANGED <<lastTradeId, queue, tmStop, published, maxSeen, exVars, brVars>>

PollerNext ==
    PollCheck \/ PollFetch \/ PollFetchFail \/ PollExcept \/ PollSleep

\* ------------------------------------------------- LiveBroker, host calls
\* dispatch()
Dispatch ==
    /\ HostIdle
    /\ LET r == dispatch(queue, Account)
       IN  /\ queue' = r.queue
           /\ SetAccount(r.acc)
    /\ taken' = IF queue = <<>> THEN taken ELSE Append(taken, Taken(Head(queue)))
    /\ hostErr' = NoError
    /\ UNCHANGED <<stop, hostPc, cashAtRefresh, lastTradeId, tmStop, pollerPc,
                   published, maxSeen, exVars>>

\* cancelOrder(order), for an order object the host holds.
CancelOrder(oid, ok) ==
    /\ HostIdle
    /\ oid \in DOMAIN orders
    /\ ok => ExOpen(oid)
    /\ LET r == cancelOrder(Account, oid, ok)
       IN  /\ SetAccount(r.acc)
           /\ hostErr' = IF r.raised THEN Raised("cancelOrder", oid) ELSE NoError
    /\ exCanceled' = IF ok THEN exCanceled \cup {oid} ELSE exCanceled
    /\ UNCHANGED <<stop, hostPc, cashAtRefresh, taken, exHistory, exRemaining, exUsd,
                   exBtc, tmVars>>

\* stop()
Stop ==
    /\ HostIdle
    /\ stop' = TRUE
    /\ tmStop' = TRUE
    /\ hostErr' = NoError
    /\ UNCHANGED <<hostPc, accVars, cashAtRefresh, taken, lastTradeId, queue, pollerPc,
                   published, maxSeen, exVars>>

\* join(): returns at once when the thread is not alive, else waits for it.
JoinCall ==
    /\ HostIdle
    /\ hostPc' = IF isAlive THEN "joining" ELSE hostPc
    /\ hostErr' = NoError
    /\ UNCHANGED <<stop, accVars, cashAtRefresh, taken, exVars, tmVars>>

\* Thread.join returning once run() has ended.
JoinReturn ==
    /\ hostPc = "joining"
    /\ ~isAlive
    /\ hostPc' = "running"
    /\ UNCHANGED <<stop, hostErr, accVars, cashAtRefresh, taken, exVars, tmVars>>

HostNext ==
    \/ \E ok \in BOOLEAN : RefreshAccountBalance(ok)
    \/ \E ok \in BOOLEAN : RefreshOpenOrders(ok)
    \/ \E ok \in BOOLEAN : StartTradeMonitor(ok)
    \/ Dispatch
    \/ \E oid \in ExOrderIds, ok \in BOOLEAN : CancelOrder(oid, ok)
    \/ Stop
    \/ JoinCall
    \/ JoinReturn

ExchangeNext ==
    \/ \E o \in ExOrderIds, kind \in FillKinds("buy") \cup FillKinds("sell") :
          ExchangeFill(o, kind)
    \/ \E kind \in ForeignFillKinds : ExchangeForeignFill(kind)

Next == HostNext \/ PollerNext \/ ExchangeNext

Spec == Init /\ [][Next]_vars

\* The steps of the two threads with an exchange that executes the orders
\* of the book only.
FairNext ==
    \/ HostNext
    \/ PollerNext
    \/ \E o \in ExOrderIds, kind \in FillKinds("buy") \cup FillKinds("sell") :
          ExchangeFill(o, kind)

\* The polling thread is scheduled and its fetch returns or raises; a
\* Thread.join returns once the thread has ended.
FairSpec ==
    Init /\ [][FairNext]_vars /\ WF_vars(PollerNext) /\ WF_vars(JoinReturn)

\* What a dispatch() step does to the queue when there is an event on it:
\* queue.get returns the head.
TakeEvent ==
    /\ HostIdle
    /\ queue # <<>>
    /\ queue' = Tail(queue)
    /\ taken' = Append(taken, Taken(Head(queue)))

\* The fair threads with a host that calls dispatch() again and again
\* whenever it is between two calls: an event does not stay on the queue
\* for ever while the host is free to call dispatch().
DeliverySpec ==
    /\ Init /\ [][FairNext]_vars
    /\ WF_vars(PollerNext) /\ WF_vars(JoinReturn) /\ WF_queue(TakeEvent)

\* ------------------------------------------------ dispatch() on any queue
\* dispatch() and _onUserTrades as functions of the queue and the account:
\* the queue is any split of a trade sequence the exchange can have
\* executed into events of either type, the account one that start() and
\* cancelOrder can have left.

\* An event type that is not ON_USER_TRADE.
OtherEvent == 2

EventTypes == {ON_USER_TRADE, OtherEvent}

\* The executions the exchange can report: of the orders of the book and of
\* the untracked order.
TradeChoices ==
    UNION { { [oid |-> o, side |-> ExOrderBook[o].side,
               price |-> ExOrderBook[o].price, kind |-> k] :
              k \in FillKinds(ExOrderBook[o].side) } : o \in ExOrderIds }
    \cup { [oid |-> ForeignOrder.id, side |-> ForeignOrder.side,
             price |-> ForeignOrder.price, kind |-> k] : k \in ForeignFillKinds }

TradeSeqs == UNION { [1..n -> TradeChoices] : n \in 0..MaxTrades }

\* The user transactions of a sequence of executions, ids from 1.
TradesOf(cs) ==
    [i \in 1..Len(cs) |->
        MakeTrade(i, cs[i].oid, cs[i].side, cs[i].price, cs[i].kind)]

\* The exchange after it executed the trades, oldest first: balance, open
\* amounts, and whether it could execute them all (no order filled beyond
\* its amount, nothing sold that was not held).
RECURSIVE ExchangeAfter(_, _)
ExchangeAfter(trades, ex) ==
    IF trades = <<>> THEN ex
    ELSE LET t == Head(trades)
             tracked == t.orderId \in DOMAIN ex.rem
             can == /\ ex.btc + t.btc >= 0
                    /\ tracked => Abs(t.btc) <= ex.rem[t.orderId]
         IN  IF ~can THEN [ex EXCEPT !.ok = FALSE]
             ELSE ExchangeAfter(Tail(trades),
                    [ usd |-> ex.usd + t.usd - t.fee,
                      btc |-> ex.btc + t.btc,
                      rem |-> IF tracked
                              THEN [ex.rem EXCEPT ![t.orderId] = @ - Abs(t.btc)]
                              ELSE ex.rem,
                      ok  |-> TRUE ])

\* The queues that hold the trades in order, split into events.
RECURSIVE Splits(_)
Splits(trades) ==
    IF trades = <<>> THEN { <<>> }
    ELSE UNION { { <<[type |-> t, data |-> SubSeq(trades, 1, k)]>> \o rest :
                     t \in EventTypes,
                     rest \in Splits(SubSeq(trades, k + 1, Len(trades))) } :
                 k \in 1..Len(trades) }

\* BTC balances the account can have when start() reads it.
StartHoldings == {0, 400000000}

\* The order sets that can be active: the open orders start() seeded, less
\* the ones cancelOrder removed.
StartActive == { ExOrderIds, ExOrderIds \ {2} }

\* The event cancelOrder emits.
CanceledEvent(oid) ==
    [order |-> oid, type |-> "CANCELED",
     info |-> [reason |-> "User requested cancellation"]]

DispatchInit ==
    \E cs \in TradeSeqs, btc \in StartHoldings, active \in StartActive :
        LET trades == TradesOf(cs)
            ex == ExchangeAfter(trades,
                    [ usd |-> InitialBalance.usd, btc |-> btc,
                      rem |-> [o \in ExOrderIds |-> ExOrderBook[o].amount],
                      ok |-> TRUE ])
        IN  /\ ex.ok
            /\ exHistory = Reverse(trades)
            /\ exRemaining = ex.rem
            /\ exCanceled = ExOrderIds \ active
            /\ exUsd = ex.usd
            /\ exBtc = ex.btc
            /\ lastTradeId = MaxId(trades)
            /\ maxSeen = MaxId(trades)
            /\ queue \in Splits(trades)
            /\ tmStop = FALSE
            /\ pollerPc = "sleep"
            /\ stop = FALSE
            /\ cash = Round2(InitialBalance.usd)
            /\ cashAtRefresh = Round2(InitialBalance.usd)
            /\ shares = BTC_SYMBOL :> btc
            /\ activeOrders = active
            /\ orders = [o \in ExOrderIds |->
                            LET order == build_order_from_open_order(
                                           [ id |-> o, side |-> ExOrderBook[o].side,
                                             price |-> ExOrderBook[o].price,
                                             amount |-> ExOrderBook[o].amount ])
                            IN  IF o \in active THEN order
                                ELSE [order EXCEPT !.state = "CANCELED"]]
            /\ events = IF 2 \in active THEN <<>> ELSE <<CanceledEvent(2)>>
            /\ hostPc = "running"
            /\ hostErr = NoError
            /\ applied = <<>>
            /\ published = <<>>
            /\ taken = <<>>

DispatchNext == Dispatch

DispatchSpec == DispatchInit /\ [][DispatchNext]_vars

\* ================================================================= claims
Range(f) == { f[i] : i \in DOMAIN f }

\* The trade of the exchange history with the given id.
TradeById(tid) == exHistory[Len(exHistory) + 1 - tid]

\* Ids of the trades of a batch whose order is in the given active set.
RECURSIVE TrackedIds(_, _)
TrackedIds(trades, active) ==
    IF trades = <<>> THEN <<>>
    ELSE (IF Head(trades).orderId \in active THEN <<Head(trades).id>> ELSE <<>>)
         \o TrackedIds(Tail(trades), active)

\* A step of dispatch() that took a batch off the queue.
DispatchedBatch == queue # <<>> /\ queue' = Tail(queue)

\* C1: between two dispatch() calls no order in the active-orders map is in
\* a terminal state (Filled or Canceled): an order whose filled quantity has
\* reached its quantity is Filled and no longer in the map.
C1_NoTerminalActiveOrder ==
    \A o \in activeOrders : isActive(orders[o])

\* C2: the watermark lastTradeId never decreases and, after every fetch that
\* returned, equals the largest trade id seen in any history fetched so far
\* (the sentinel -1 while no trade was seen).
C2_WatermarkIsMaxSeen ==
    /\ lastTradeId = maxSeen
    /\ [][lastTradeId' >= lastTradeId /\ lastTradeId' = maxSeen']_vars

C2_Witness ==
    /\ Len(published) >= 2
    /\ lastTradeId >= 2
    /\ lastTradeId = Len(exHistory)

\* C3: every published batch holds only ids above the watermark its fetch
\* saw, and no trade id is published twice, in one batch or in two.
C3_NoRepublish ==
    \A i \in 1..Len(published) :
        \A k \in 1..Len(published[i].ids) :
            /\ published[i].ids[k] > published[i].wm
            /\ \A j \in 1..Len(published) : \A m \in 1..Len(published[j].ids) :
                 published[j].ids[m] = published[i].ids[k] => (j = i /\ m = k)

C3_Witness ==
    /\ Len(published) >= 2
    /\ published[2].wm > published[1].wm

\* C4: dispatch() skips a trade whose order id is not a key of the active
\* orders map: nothing is applied and no event is emitted for it, an order
\* outside the map keeps its state and executions, the other trades of the
\* batch are still applied in order, and dispatch() does not raise.
C4_OrphanTradeSkipped ==
    [][ DispatchedBatch =>
          LET ids == TrackedIds(Head(queue).data, activeOrders)
          IN  /\ applied' = applied \o ids
              /\ Len(events') = Len(events) + Len(ids)
              /\ \A o \in DOMAIN orders : o \notin activeOrders => orders'[o] = orders[o]
              /\ ids = <<>> => UNCHANGED <<cash, shares, activeOrders, orders, events>>
              /\ hostErr' = NoError ]_vars

C4_Witness ==
    /\ queue = <<>>
    /\ \E i \in 1..Len(published) :
         \E k1, k2 \in 1..Len(published[i].ids) :
            /\ k1 < k2
            /\ published[i].ids[k1] \notin Range(applied)
            /\ published[i].ids[k2] \in Range(applied)

\* C5: trades are applied to account state in strictly increasing trade id
\* order over the whole run.
C5_AppliedInIdOrder ==
    \A i, j \in 1..Len(applied) : i < j => applied[i] < applied[j]

C5_Witness ==
    /\ \E i \in 1..Len(published) :
         \E k1, k2 \in 1..Len(published[i].ids) :
            /\ k1 < k2
            /\ published[i].ids[k1] \in Range(applied)
            /\ published[i].ids[k2] \in Range(applied)
            /\ TradeById(published[i].ids[k1]).orderId
                 = TradeById(published[i].ids[k2]).orderId

\* C6: when the exchange cancel call of cancelOrder(order) fails, the
\* exception reaches the caller and cash, holdings, the active-orders map,
\* every order's state and the emitted events are what they were.
C6_CancelFailureLeavesState ==
    [][ (hostErr'.call = "cancelOrder" /\ exCanceled' = exCanceled) =>
          UNCHANGED <<cash, shares, activeOrders, orders, events>> ]_vars

C6_Witness ==
    /\ hostErr.call = "cancelOrder"
    /\ hostErr.order \in activeOrders
    /\ hostErr.order \notin exCanceled
    /\ orders[hostErr.order].state = "PARTIALLY_FILLED"

\* C7: a refresh of start() that raises leaves eof() true and the polling
\* thread not started, with nothing fetched or published; the thread is
\* started only when the balance refresh and then the open-order refresh
\* have both returned.
C7_StartFailureIsFatal ==
    /\ hostPc = "failed" => stop
    /\ hostErr.call = "start" => hostPc = "failed"
    /\ hostPc \in {"created", "balanceDone", "ordersDone", "failed"} =>
         /\ pollerPc = "notstarted"
         /\ lastTradeId = NoTradeId /\ maxSeen = NoTradeId
         /\ queue = <<>> /\ published = <<>>
    /\ hostPc \in {"created", "balanceDone"} => orders = EmptyMap
    /\ hostPc = "created" => shares = EmptyMap /\ cash = 0

C7_Witness ==
    /\ hostPc = "failed"
    /\ stop
    /\ hostErr = NoError
    /\ BTC_SYMBOL \in DOMAIN shares
    /\ orders = EmptyMap
    /\ exHistory # <<>>

\* C8: a fetch that fails in the polling loop leaves the watermark as it was
\* and puts nothing on the queue, the thread goes on to sleep and, unless it
\* was stopped, to the next fetch; a fetch that returns publishes every trade
\* of the history above the watermark, the ones a failed fetch missed among
\* them.
C8_FetchFailureIsTransient ==
    /\ [][ (pollerPc = "except" \/ pollerPc' = "except") =>
             /\ lastTradeId' = lastTradeId
             /\ published' = published
             /\ queue' = queue \/ DispatchedBatch ]_vars
    /\ [][ pollerPc = "except" => pollerPc' \in {"except", "sleep"} ]_vars
    /\ [][ pollerPc = "sleep" => pollerPc' \in {"sleep", "check"} ]_vars
    /\ [][ (pollerPc = "check" /\ ~tmStop) => pollerPc' \in {"check", "fetch"} ]_vars
    /\ [][ (pollerPc = "fetch" /\ pollerPc' = "sleep") =>
             \A i \in 1..Len(exHistory) :
                exHistory[i].id > lastTradeId =>
                  /\ Len(published') = Len(published) + 1
                  /\ exHistory[i].id \in Range(Last(published').ids)
                  /\ Len(queue') > 0
                  /\ exHistory[i] \in Range(Last(queue').data) ]_vars

C8_Witness ==
    /\ pollerPc = "except"
    /\ published # <<>>
    /\ \E i \in 1..Len(exHistory) : exHistory[i].id > lastTradeId
    /\ ~tmStop

\* C9: once stop() was called the polling thread ends and a join() waiting
\* for it returns; stop() does not wait for the thread, and join() waits
\* only for a thread that is alive.
C9_StopThenJoinTerminates ==
    /\ (tmStop /\ isAlive) ~> (pollerPc = "done")
    /\ (tmStop /\ hostPc = "joining") ~> (hostPc # "joining")
    /\ [][ (~tmStop /\ tmStop') => (pollerPc' = pollerPc /\ hostPc' = hostPc) ]_vars
    /\ [][ (hostPc # "joining" /\ hostPc' = "joining") => isAlive ]_vars

C9_Witness ==
    /\ tmStop
    /\ pollerPc = "done"
    /\ hostPc = "joining"
    /\ published # <<>>

\* Exact sum of quoteDelta - fee over the trades with the given ids.
RECURSIVE DeltaSum(_)
DeltaSum(ids) ==
    IF ids = <<>> THEN 0
    ELSE TradeById(Head(ids)).usd - TradeById(Head(ids)).fee + DeltaSum(Tail(ids))

\* Cash after the trades with the given ids, rounded to cents after each.
RECURSIVE CashChain(_, _)
CashChain(c, ids) ==
    IF ids = <<>> THEN c
    ELSE CashChain(RoundTo(c + TradeById(Head(ids)).usd - TradeById(Head(ids)).fee,
                           CashQuantum),
                   Tail(ids))

\* Holding after the trades with the given ids, rounded after each.
RECURSIVE QtyChain(_, _)
QtyChain(q, ids) ==
    IF ids = <<>> THEN q
    ELSE QtyChain(RoundTo(q + TradeById(Head(ids)).btc, QtyQuantum), Tail(ids))

WholeCents(ids) ==
    \A i \in 1..Len(ids) :
        (TradeById(ids[i]).usd - TradeById(ids[i]).fee) % CashQuantum = 0

\* The trade with the given id is a fill of order 1 of b (1e-9 BTC) with fee f.
IsBuyOfOrder1(tid, b, f) ==
    /\ tid \in 1..Len(exHistory)
    /\ TradeById(tid).orderId = 1
    /\ TradeById(tid).btc = b
    /\ TradeById(tid).usd = -QuoteOf(b, ExOrderBook[1].price)
    /\ TradeById(tid).fee = f

\* Refreshed cash 1000.00, holding 0, order 1 a buy of 1.0 BTC, and the
\* applied trades are all the trades there are.
ScenarioStart ==
    /\ cashAtRefresh = 1000000
    /\ 1 \in DOMAIN orders
    /\ orders[1].quantity = 1000000000
    /\ Len(exHistory) = Len(applied)

ScenarioAfterT1 ==
    /\ ScenarioStart
    /\ Len(applied) = 1
    /\ IsBuyOfOrder1(applied[1], 400000000, 100)

ScenarioAfterT2 ==
    /\ ScenarioStart
    /\ Len(applied) = 2
    /\ IsBuyOfOrder1(applied[1], 400000000, 100)
    /\ IsBuyOfOrder1(applied[2], 600000000, 150)

\* The events of order 1, in the order they were emitted.
RECURSIVE EventsOfOrder1(_)
EventsOfOrder1(evs) ==
    IF evs = <<>> THEN <<>>
    ELSE (IF Head(evs).order = 1 THEN <<Head(evs).type>> ELSE <<>>)
         \o EventsOfOrder1(Tail(evs))

C10_State ==
    /\ ScenarioAfterT1 =>
         /\ cash = 959900
         /\ getShares(shares, BTC_SYMBOL) = 400000000
         /\ EventsOfOrder1(events) \in
              { <<"PARTIALLY_FILLED">>, <<"PARTIALLY_FILLED", "CANCELED">> }
         /\ 1 \in activeOrders \/ orders[1].state = "CANCELED"
    /\ ScenarioAfterT2 =>
         /\ cash = 899750
         /\ getShares(shares, BTC_SYMBOL) = 1000000000
         /\ EventsOfOrder1(events) = <<"PARTIALLY_FILLED", "FILLED">>
    /\ cash = CashChain(cashAtRefresh, applied)
    /\ WholeCents(applied) => cash = cashAtRefresh + DeltaSum(applied)

\* C10 as amended: the scenario values; each applied trade sets cash to
\* round(cash + quoteDelta - fee, 2) and the holding to the rounded value of
\* holding + baseDelta; cash equals the refreshed cash plus the sum of
\* quoteDelta - fee over the applied trades when each of these is a whole
\* number of cents.
C10_CashFollowsTrades ==
    /\ C10_State
    /\ [][ /\ C10_State'
           /\ DispatchedBatch =>
                LET ids == TrackedIds(Head(queue).data, activeOrders)
                IN  /\ cash' = CashChain(cash, ids)
                    /\ getShares(shares', BTC_SYMBOL)
                         = QtyChain(getShares(shares, BTC_SYMBOL), ids) ]_vars

C10_Witness ==
    /\ ScenarioAfterT2
    /\ cash = 899750

\* C10 as stated: cash always equals the refreshed cash plus the sum of
\* quoteDelta - fee over the trades applied since the refresh.
C10_CashIsRefreshPlusSum ==
    cash = cashAtRefresh + DeltaSum(applied)

\* C11: the holdings map never keeps an entry whose quantity is exactly
\* zero: after start() and any dispatched trades, a holding of 0 means the
\* map has no key for the instrument.
C11_NoZeroHolding ==
    \A k \in DOMAIN shares : shares[k] # 0

\* C12: each dispatch() takes at most one event off the queue; on an empty
\* queue, or when the event taken is not of a recognized type, it returns
\* without raising, cash, holdings, the active orders, the orders and the
\* emitted events are unchanged, and the unrecognized event is gone from the
\* queue, the events behind it being the next ones dispatched.
C12_DispatchFrame ==
    [][ /\ queue' = queue \/ DispatchedBatch
        /\ queue = <<>> =>
             /\ queue' = queue
             /\ UNCHANGED <<cash, shares, activeOrders, orders, events, applied>>
             /\ hostErr' = NoError
        /\ (queue # <<>> /\ Head(queue).type # ON_USER_TRADE) =>
             /\ queue' = Tail(queue)
             /\ UNCHANGED <<cash, shares, activeOrders, orders, events, applied>>
             /\ hostErr' = NoError ]_vars

C12_Witness ==
    /\ queue = <<>>
    /\ Len(taken) >= 2
    /\ taken[1].type # ON_USER_TRADE
    /\ taken[2].type = ON_USER_TRADE
    /\ applied = taken[2].ids
    /\ hostErr = NoError

\* The batch as single-trade batches, in the same order.
SingleTradeBatches(trades) ==
    [i \in 1..Len(trades) |-> [type |-> ON_USER_TRADE, data |-> <<trades[i]>>]]

\* The account after dispatch() was called once for each event of the queue.
RECURSIVE DispatchAll(_, _)
DispatchAll(q, acc) ==
    IF q = <<>> THEN acc
    ELSE LET r == dispatch(q, acc) IN DispatchAll(r.queue, r.acc)

\* C14: dispatching the trades T1..Tn as one batch leaves the same cash,
\* holdings, active orders, orders and emitted events as dispatching them as
\* n single-trade batches in the same order, from every account state.
C14_BatchEqualsSingles ==
    [][ (queue # <<>> /\ Head(queue).type = ON_USER_TRADE) =>
          LET single == DispatchAll(SingleTradeBatches(Head(queue).data), Account)
          IN  /\ cash' = single.cash
              /\ shares' = single.shares
              /\ activeOrders' = single.activeOrders
              /\ orders' = single.orders
              /\ events' = single.events ]_vars

C14_Witness ==
    /\ taken # <<>>
    /\ Last(taken).type = ON_USER_TRADE
    /\ Len(Last(taken).ids) >= 2
    /\ Len(applied) >= 2
    /\ applied = Last(taken).ids
    /\ \E i, j \in 1..Len(events) :
          i < j /\ events[i].type = "PARTIALLY_FILLED" /\ events[j].type = "FILLED"

\* C13: eof() is false before start() and from the moment start() has
\* returned without raising until stop() is called; once stop() was called
\* eof() is true in every later state, whatever dispatch(), cancelOrder()
\* and join() calls follow.  TradeMonitor.__stop is set by stop() alone, so
\* it tells that stop() was called.
C13_EofFollowsStop ==
    /\ hostPc = "created" => ~eof
    /\ (hostPc \in {"running", "joining"} /\ ~tmStop) => ~eof
    /\ tmStop => eof
    /\ [][ (hostPc = "ordersDone" /\ hostPc' = "running") => ~eof' ]_vars
    /\ [][ (~tmStop /\ tmStop') => eof' ]_vars
    /\ [][ tmStop => (tmStop' /\ eof') ]_vars

C13_Witness ==
    /\ tmStop
    /\ eof
    /\ hostPc = "running"
    /\ pollerPc = "done"
    /\ queue = <<>>
    /\ taken # <<>>
    /\ applied # <<>>

\* The calls the host makes once start() has returned.
HostCall ==
    \/ Dispatch
    \/ \E oid \in ExOrderIds, ok \in BOOLEAN : CancelOrder(oid, ok)
    \/ Stop
    \/ JoinCall
    \/ JoinReturn

\* C15: single writer.  A step of the polling thread (loop test, fetch,
\* watermark update, enqueue, except clause, sleep, exit) leaves cash,
\* holdings, the active orders, the orders, the emitted events and eof()
\* unchanged; a step of dispatch, cancelOrder, stop or join leaves the
\* watermark and the polling thread's position unchanged.  The two threads
\* share the queue, which the poller only appends to and the host only
\* takes the head from, and the poller's stop flag, which the host alone
\* writes.
C15_SingleWriter ==
    /\ [][ PollerNext =>
             /\ UNCHANGED <<cash, shares, activeOrders, orders, events, stop>>
             /\ tmStop' = tmStop
             /\ \/ queue' = queue
                \/ /\ Len(queue') = Len(queue) + 1
                   /\ SubSeq(queue', 1, Len(queue)) = queue ]_vars
    /\ [][ HostCall =>
             /\ UNCHANGED <<lastTradeId, pollerPc>>
             /\ queue' = queue \/ DispatchedBatch ]_vars

C15_Witness ==
    /\ hostPc = "running"
    /\ pollerPc = "fetch"
    /\ applied # <<>>
    /\ queue # <<>>
    /\ lastTradeId > Last(applied)

\* The execution records of order o among the trades with the given ids,
\* oldest first: fill price, absolute base amount, fee, timestamp.
RECURSIVE ExecsOf(_, _)
ExecsOf(ids, o) ==
    IF ids = <<>> THEN <<>>
    ELSE LET t == TradeById(Head(ids))
         IN  (IF t.orderId = o
              THEN << [ price |-> t.btcusd, quantity |-> Max(t.btc, -t.btc),
                        commission |-> t.fee, dateTime |-> t.dateTime ] >>
              ELSE <<>>)
             \o ExecsOf(Tail(ids), o)

RECURSIVE SumQuantity(_)
SumQuantity(execs) ==
    IF execs = <<>> THEN 0
    ELSE Head(execs).quantity + SumQuantity(Tail(execs))

\* C16: a dispatched batch emits one lifecycle event for each of its trades
\* whose order is in the active-orders map, in the order of the trades and
\* after the earlier events; the event carries the execution record (fill
\* price, absolute base amount, fee, timestamp) that was appended to the
\* order, and it is FILLED if the executions up to and including this one
\* fill the order and PARTIALLY_FILLED otherwise; cash and holdings change
\* only in a dispatch that emits an event.
C16_OneEventPerTrade ==
    [][ DispatchedBatch =>
          LET ids == TrackedIds(Head(queue).data, activeOrders)
              new == SubSeq(events', Len(events) + 1, Len(events'))
          IN  /\ SubSeq(events', 1, Len(events)) = events
              /\ Len(new) = Len(ids)
              /\ \A k \in 1..Len(ids) :
                   LET o == TradeById(ids[k]).orderId
                       done == ExecsOf(SubSeq(ids, 1, k), o)
                   IN  /\ new[k].order = o
                       /\ new[k].info = Last(done)
                       /\ orders'[o].execs = orders[o].execs \o ExecsOf(ids, o)
                       /\ new[k].type =
                            IF orders[o].filled + SumQuantity(done) = orders[o].quantity
                            THEN "FILLED" ELSE "PARTIALLY_FILLED"
              /\ (cash' # cash \/ shares' # shares) => Len(new) > 0 ]_vars

C16_Witness ==
    /\ Len(events) >= 2
    /\ events[1].type = "PARTIALLY_FILLED"
    /\ events[2].type = "FILLED"
    /\ events[1].order = events[2].order
    /\ orders[events[2].order].execs = <<events[1].info, events[2].info>>
    /\ cash = CashChain(cashAtRefresh, applied)
    /\ Len(applied) = 2

\* C17: a cancelOrder(order) whose exchange call succeeds, for an order in
\* the active-orders map, takes that order out of the map, puts it in state
\* CANCELED and emits one CANCELED event, and changes nothing else of cash,
\* holdings, the other orders and the earlier events; a trade of that order
\* dispatched later is skipped as a trade without an active order: it is
\* not applied, the order keeps its state and no event is emitted for it.
C17_CancelRemovesOrder ==
    /\ [][ \A oid \in ExOrderIds :
             (oid \in exCanceled' \ exCanceled /\ oid \in activeOrders) =>
                /\ activeOrders' = activeOrders \ {oid}
                /\ orders' = [orders EXCEPT ![oid].state = "CANCELED"]
                /\ events' = Append(events, CanceledEvent(oid))
                /\ UNCHANGED <<cash, shares, applied>>
                /\ hostErr' = NoError ]_vars
    /\ [][ DispatchedBatch =>
             \A i \in 1..Len(Head(queue).data) :
                LET t == Head(queue).data[i]
                IN  (t.orderId \in DOMAIN orders /\ orders[t.orderId].state = "CANCELED") =>
                       /\ t.id \notin Range(applied')
                       /\ orders'[t.orderId] = orders[t.orderId]
                       /\ \A k \in (Len(events) + 1)..Len(events') :
                            events'[k].order # t.orderId ]_vars

C17_Witness ==
    /\ queue = <<>>
    /\ \E o \in DOMAIN orders :
         /\ orders[o].state = "CANCELED"
         /\ o \notin activeOrders
         /\ Cardinality({ k \in 1..Len(events) :
                            events[k].order = o /\ events[k].type = "CANCELED" }) = 1
         /\ \E i \in 1..Len(taken) : \E k \in 1..Len(taken[i].ids) :
              /\ TradeById(taken[i].ids[k]).orderId = o
              /\ taken[i].ids[k] \notin Range(applied)

\* The watermark TradeMonitor.start left: the one the fetch of the first
\* published batch saw, the current one while nothing was published.
StartWatermark ==
    IF published = <<>> THEN lastTradeId ELSE published[1].wm

\* The ids of the trades in the events of a queue.
RECURSIVE QueuedIds(_)
QueuedIds(q) ==
    IF q = <<>> THEN {}
    ELSE { Head(q).data[i].id : i \in 1..Len(Head(q).data) } \cup QueuedIds(Tail(q))

\* C18: the step that starts the polling thread sets the watermark to the
\* id of the newest trade of the history it fetches (NoTradeId when the
\* history is empty) with nothing published yet; the loop never lowers that
\* start watermark, and no trade with an id up to it, which are the trades
\* in the history at that fetch, is ever published, queued or applied.
C18_StartWatermarkSkipsHistory ==
    /\ [][ (pollerPc = "notstarted" /\ pollerPc' # "notstarted") =>
             /\ lastTradeId' = MaxId(exHistory)
             /\ pollerPc' = "check"
             /\ queue' = <<>> /\ published' = <<>> /\ applied' = <<>> ]_vars
    /\ [][ pollerPc # "notstarted" => StartWatermark' = StartWatermark ]_vars
    /\ pollerPc # "notstarted" =>
         \A tid \in 1..Len(exHistory) :
            tid <= StartWatermark =>
               /\ \A i \in 1..Len(published) : tid \notin Range(published[i].ids)
               /\ tid \notin QueuedIds(queue)
               /\ tid \notin Range(applied)

C18_Witness ==
    /\ pollerPc # "notstarted"
    /\ StartWatermark >= 1
    /\ published # <<>>
    /\ applied # <<>>
    /\ TradeById(StartWatermark).orderId \in activeOrders

\* start() has returned, the poller has seen the whole history and the
\* queue is empty.
Drained ==
    /\ hostPc = "running"
    /\ queue = <<>>
    /\ lastTradeId = MaxId(exHistory)

\* Every trade of the history is a trade of an order in the active-orders
\* map, with a whole number of cents as its quote amount less fee.
OnlySeededOrdersTraded ==
    /\ \A i \in 1..Len(exHistory) : exHistory[i].orderId \in activeOrders
    /\ WholeCents([i \in 1..Len(exHistory) |-> i])

\* C19: no fill is lost during startup: when the only trades are trades of
\* seeded active orders, then once the poller has seen them all and the
\* queue is drained, local cash and holdings equal the exchange's, whenever
\* the exchange executed them relative to the steps of start().
C19_NoFillLostAtStartup ==
    (Drained /\ OnlySeededOrdersTraded) =>
        /\ cash = exUsd
        /\ getShares(shares, BTC_SYMBOL) = exBtc

\* The batches of trade ids published, taken by dispatch() and waiting.
PublishedBatches == [i \in 1..Len(published) |-> published[i].ids]
TakenBatches == [i \in 1..Len(taken) |-> taken[i].ids]
QueuedBatches == [i \in 1..Len(queue) |-> Taken(queue[i]).ids]

\* The host is blocked for good in a join() of a thread nobody stops.
HostBlockedInJoin == hostPc = "joining" /\ ~tmStop

\* The polling thread was told to stop and is past its last fetch.
PollerPastLastFetch == tmStop /\ pollerPc \in {"sleep", "check", "done"}

\* C20: exactly-once delivery.  The batches published are, in order, the
\* batches dispatch() has handed to _onUserTrades followed by the batches
\* still on the queue, so none is dropped and none is handed over twice,
\* and the trades of a batch taken are applied in that very dispatch(); a
\* host that keeps calling dispatch() takes every published batch in the
\* end; once stop() was called the poller publishes at most one further
\* batch: only the fetch it was in can publish, one batch, and from the end
\* of that fetch on it never fetches or publishes again.
C20_ExactlyOnceDelivery ==
    /\ PublishedBatches = TakenBatches \o QueuedBatches
    /\ \A i \in 1..Len(taken) : taken[i].type = ON_USER_TRADE
    /\ [][ Len(taken') > Len(taken) =>
             /\ taken' = Append(taken, Taken(Head(queue)))
             /\ queue' = Tail(queue)
             /\ applied' = applied \o TrackedIds(Head(queue).data, activeOrders) ]_vars
    /\ (queue # <<>>) ~> (queue = <<>> \/ HostBlockedInJoin)
    /\ [][ Len(published') > Len(published) =>
             /\ Len(published') = Len(published) + 1
             /\ pollerPc = "fetch" /\ pollerPc' = "sleep" ]_vars
    /\ [][ PollerPastLastFetch => (PollerPastLastFetch' /\ published' = published) ]_vars
    /\ [][ tmStop => tmStop' ]_vars

C20_Witness ==
    /\ tmStop
    /\ pollerPc = "done"
    /\ queue = <<>>
    /\ Len(taken) = 2
    /\ PublishedBatches = TakenBatches
    /\ Len(applied) = 2

====
